---- MODULE Spec2Model ----
(***************************************************************************)
(* Model of curva_abcd_safras.py: the Streamlit script that consolidates a *)
(* longitudinal CSV of consultant records into one profile per consultant  *)
(* (load_and_prepare_data) and computes, per cohort ("Turma") and segment  *)
(* ("MF"), the distribution of the best attainment letter on the AuC and   *)
(* Receita tracks and the churn rate (main).                               *)
(*                                                                         *)
(* Encoding of cell values.  E-mail cells are integers ordered as the      *)
(* e-mail strings are; Data cells are integers (a day number) when they    *)
(* parse as a date; Turma cells are integers; the letter and status        *)
(* columns are strings.  A missing cell is NaN (numeric columns) or NaNStr *)
(* (string columns).  Percentages are kept in tenths of a percent, so the  *)
(* one-decimal value 33.3 is the integer 333.                              *)
(***************************************************************************)
EXTENDS Integers, Sequences, FiniteSets, TLC

VARIABLES uploaded_file, pc, df, visao, selecao_raw, df_filtered, ordem_x,
          df_auc_pct, df_receita_pct, df_deslig_pct, message

vars == <<uploaded_file, pc, df, visao, selecao_raw, df_filtered, ordem_x,
          df_auc_pct, df_receita_pct, df_deslig_pct, message>>

-----------------------------------------------------------------------------
(* Bounds of the input sets.                                               *)

MaxRecs == 3
MaxConsultores == 3
MaxSel == 2

(* The cell values the input files draw from.                              *)
Emails == {1, 2}
Dates == {1, 2}
Turmas == {23, 24}

-----------------------------------------------------------------------------
(* Missing values.                                                         *)

NaN == 0
NaT == 0
NaNStr == "NaN"

(* A Data cell whose text is no date.                                      *)
Malformed == -1

(* pd.to_datetime(errors='coerce'): a cell that is no date becomes NaT.    *)
ToDatetime(cell) == IF cell > 0 THEN cell ELSE NaT

(* Python's string order on the letters the model uses ('A' < 'B' < ...).  *)
Rank(c) ==
  CASE c = "A" -> 1
    [] c = "B" -> 2
    [] c = "C" -> 3
    [] c = "D" -> 4
    [] OTHER -> 5

-----------------------------------------------------------------------------
(* load_and_prepare_data                                                   *)

(* Row i of recs sorts before row j under                                  *)
(* sort_values(by=['E-mail','Data']): missing keys last (na_position),     *)
(* equal keys in their original order (the multi-key sort is stable).      *)
KeyLess(a, b, na) == a # na /\ (b = na \/ a < b)

SortsBefore(recs, i, j) ==
  \/ KeyLess(recs[i].email, recs[j].email, NaN)
  \/ /\ recs[i].email = recs[j].email
     /\ \/ KeyLess(recs[i].Data, recs[j].Data, NaT)
        \/ recs[i].Data = recs[j].Data /\ i < j

(* The sort by date left out: rows stay in file order.                     *)
SortValuesUnsorted(recs) == recs

SortValues(recs) ==
  [k \in 1..Len(recs) |->
     recs[CHOOSE i \in 1..Len(recs) :
            Cardinality({j \in 1..Len(recs) : SortsBefore(recs, j, i)}) = k - 1]]

ParseDates(recs) ==
  [k \in 1..Len(recs) |-> [recs[k] EXCEPT !.Data = ToDatetime(recs[k].Data)]]

(* groupby('E-mail'): the group keys, ascending, rows with a missing key   *)
(* dropped.                                                                *)
RECURSIVE Ascending(_)
Ascending(S) ==
  IF S = {} THEN <<>>
  ELSE LET m == CHOOSE x \in S : \A y \in S : x <= y
       IN <<m>> \o Ascending(S \ {m})

KeySet(recs) == {recs[i].email : i \in 1..Len(recs)} \ {NaN}

(* No grouping: one key per row.                                           *)
GroupKeysPerRow(recs) == [i \in 1..Len(recs) |-> recs[i].email]

GroupKeys(recs) == Ascending(KeySet(recs))

Group(recs, k) ==
  LET InGroup(r) == r.email = k IN SelectSeq(recs, InGroup)

(* 'first': the first non-missing value of the column in the group.        *)
AggFirst(col, na) ==
  LET Present(v) == v # na
      s == SelectSeq(col, Present)
  IN IF s = <<>> THEN na ELSE Head(s)

(* 'min': the smallest non-missing value of the column in the group.       *)
(* The latest value instead of the best one.                               *)
AggMinLatest(col) == IF col = <<>> THEN NaNStr ELSE col[Len(col)]

AggMin(col) ==
  LET S == {col[i] : i \in 1..Len(col)} \ {NaNStr}
  IN IF S = {} THEN NaNStr
     ELSE CHOOSE c \in S : \A d \in S : Rank(c) <= Rank(d)

AggMF(col) ==
  IF \E i \in 1..Len(col) : col[i] = "Sim" THEN "Sim" ELSE "Nao"

(* The latest status instead of "ever terminated".                         *)
AggStatusLatest(col) ==
  IF col # <<>> /\ col[Len(col)] = "Desligado" THEN "Desligado" ELSE "Ativo"

AggStatus(col) ==
  IF \E i \in 1..Len(col) : col[i] = "Desligado" THEN "Desligado" ELSE "Ativo"

mf_map(v) ==
  IF v = "Sim" THEN "Profissionais de mercado financeiro (MF)"
  ELSE "Profissionais em migracao de carreira"

Column(g, f) == [i \in 1..Len(g) |-> g[i][f]]

Agg(g, k) ==
  [email |-> k,
   Turma |-> AggFirst(Column(g, "Turma"), NaN),
   MF |-> mf_map(AggMF(Column(g, "MF"))),
   CurvaAuCMaxima |-> AggMin(Column(g, "CurvaAuC")),
   CurvaReceitaMaxima |-> AggMin(Column(g, "CurvaReceita")),
   Status |-> AggStatus(Column(g, "Status"))]

load_and_prepare_data(rows) ==
  LET sorted == SortValues(ParseDates(rows))
      keys == GroupKeys(sorted)
  IN [n \in 1..Len(keys) |-> Agg(Group(sorted, keys[n]), keys[n])]

-----------------------------------------------------------------------------
(* The uploaded file: none, a file pandas cannot load (unparseable, or a   *)
(* required column missing), or a CSV with its rows.                       *)

NoFile == [kind |-> "none", rows |-> <<>>, detail |-> ""]

BadFiles ==
  {[kind |-> "bad", rows |-> <<>>, detail |-> d] :
     d \in {"KeyError: 'Data'", "ParserError"}}

Csv(rows) == [kind |-> "csv", rows |-> rows, detail |-> ""]

Recs(E, D, T, M, A, R, S) ==
  [email : E, Data : D, Turma : T, MF : M, CurvaAuC : A, CurvaReceita : R,
   Status : S]

SeqsUpTo(S, n) == UNION {[1..k -> S] : k \in 0..n}

NoMessage == [level |-> "", detail |-> ""]

InitRest ==
  /\ pc = "start"
  /\ df = <<>>
  /\ visao = ""
  /\ selecao_raw = {}
  /\ df_filtered = <<>>
  /\ ordem_x = <<>>
  /\ df_auc_pct = {}
  /\ df_receita_pct = {}
  /\ df_deslig_pct = {}
  /\ message = NoMessage

-----------------------------------------------------------------------------
(* main, up to the load.                                                   *)

Untouched ==
  UNCHANGED <<uploaded_file, visao, selecao_raw, df_filtered, ordem_x,
              df_auc_pct, df_receita_pct, df_deslig_pct>>

AwaitUpload ==
  /\ pc = "start"
  /\ uploaded_file.kind = "none"
  /\ message' = [level |-> "info", detail |-> "Aguardando o upload"]
  /\ pc' = "returned"
  /\ UNCHANGED df
  /\ Untouched

(* The return after st.error left out: the script runs on.                 *)
LoadFailsNoReturn ==
  /\ pc = "start"
  /\ uploaded_file.kind = "bad"
  /\ message' = [level |-> "error", detail |-> uploaded_file.detail]
  /\ pc' = "sidebar"
  /\ UNCHANGED df
  /\ Untouched

LoadFails ==
  /\ pc = "start"
  /\ uploaded_file.kind = "bad"
  /\ message' = [level |-> "error", detail |-> uploaded_file.detail]
  /\ pc' = "returned"
  /\ UNCHANGED df
  /\ Untouched

LoadOk ==
  /\ pc = "start"
  /\ uploaded_file.kind = "csv"
  /\ df' = load_and_prepare_data(uploaded_file.rows)
  /\ pc' = "sidebar"
  /\ UNCHANGED message
  /\ Untouched

NextLoad == AwaitUpload \/ LoadFails \/ LoadOk

rows == uploaded_file.rows

(* Files whose rows vary in consultant, date and cohort.                   *)
FilesLoad ==
  {Csv(s) : s \in SeqsUpTo(Recs(Emails \cup {NaN}, Dates \cup {Malformed},
                                Turmas \cup {NaN}, {"Sim"}, {"A"}, {"A"},
                                {"Ativo"}), MaxRecs)}

InitLoad ==
  /\ uploaded_file \in {NoFile} \cup BadFiles \cup FilesLoad
  /\ InitRest

SpecLoad == InitLoad /\ [][NextLoad]_vars

(* Files whose rows vary in consultant and in both attainment tracks.      *)
RecsApex ==
  Recs(Emails, {1}, {23}, {"Sim"}, {"A", "B", "C", NaNStr}, {"B", NaNStr},
       {"Ativo"})

FilesApex == {Csv(s) : s \in SeqsUpTo(RecsApex, MaxRecs)}

InitApex ==
  /\ uploaded_file \in {NoFile} \cup BadFiles \cup FilesApex
  /\ InitRest

SpecApex == InitApex /\ [][NextLoad]_vars

(* Files whose rows vary in consultant, date and status.                   *)
RecsStatus ==
  Recs(Emails, Dates, {23}, {"Sim"}, {"A"}, {"B"},
       {"Ativo", "Desligado", "Afastado"})

FilesStatus == {Csv(s) : s \in SeqsUpTo(RecsStatus, MaxRecs)}

InitStatus ==
  /\ uploaded_file \in {NoFile} \cup BadFiles \cup FilesStatus
  /\ InitRest

SpecStatus == InitStatus /\ [][NextLoad]_vars

-----------------------------------------------------------------------------
(* main: the sidebar filters.                                              *)

Geral == "Visao Geral (Todas as Safras)"
PorSafra == "Visao Por Safra"

(* sorted(df['Turma'].dropna().unique()), as a set; ordem_x orders it.     *)
turmas_disponiveis(d) == {d[i].Turma : i \in 1..Len(d)} \ {NaN}

opcoes_especiais ==
  {"Selecionar todas", "Dados - FCE (Finclass)", "Dados - Sem FCE (Finclass)"}

(* An option of the multiselect: a macro label or a cohort number.         *)
Especial(m) == [macro |-> m, turma |-> NaN]
Numero(t) == [macro |-> "", turma |-> t]

Opcoes(disp) ==
  {Especial(m) : m \in opcoes_especiais} \cup {Numero(t) : t \in disp}

Expand(item, disp) ==
  CASE item.macro = "Selecionar todas" -> disp
    [] item.macro = "Dados - FCE (Finclass)" -> {t \in disp : t >= 24}
    [] item.macro = "Dados - Sem FCE (Finclass)" -> {t \in disp : t < 24}
    [] OTHER -> {item.turma}

turmas_selecionadas(sel, disp) == UNION {Expand(item, disp) : item \in sel}

(* An empty selection taken as "no filter".                                *)
IsinOrAll(d, ts) ==
  LET Sel(r) == r.Turma \in ts IN IF ts = {} THEN d ELSE SelectSeq(d, Sel)

(* df[df['Turma'].isin(turmas_selecionadas)]                               *)
Isin(d, ts) == LET Sel(r) == r.Turma \in ts IN SelectSeq(d, Sel)

AllGeral(d) == [i \in 1..Len(d) |-> [d[i] EXCEPT !.Turma = "Geral"]]

(* astype(str) of the Turma column: a number in the per-cohort view, the   *)
(* label "Geral" already in the overall view.                              *)
AsTypeStr(v, t) == IF v = Geral THEN t ELSE ToString(t)

TurmaNA(v) == IF v = Geral THEN NaNStr ELSE NaN

-----------------------------------------------------------------------------
(* main: the three analyses.                                               *)

(* round(1) of 100 * num / den, in tenths of a percent (half to even).     *)
Round1(num, den) ==
  LET q == (1000 * num) \div den
      r == (1000 * num) % den
  IN IF 2 * r < den THEN q
     ELSE IF 2 * r > den THEN q + 1
     ELSE q + (q % 2)

SameGroup(a, b) == a.Turma = b.Turma /\ a.MF = b.MF

(* groupby(['Turma','MF']).size(): one row per key pair that occurs, rows  *)
(* with a missing key dropped.                                             *)
GroupTotal(f, v) ==
  {[Turma |-> f[i].Turma, MF |-> f[i].MF,
    Total |-> Cardinality({j \in 1..Len(f) : SameGroup(f[j], f[i])})] :
     i \in {i \in 1..Len(f) : f[i].Turma # TurmaNA(v) /\ f[i].MF # NaNStr}}

(* Counting over the closed alphabet A..D only.                            *)
GroupContagemKnown(f, col, v) ==
  {[Turma |-> f[i].Turma, MF |-> f[i].MF, Valor |-> f[i][col],
    Contagem |-> Cardinality({j \in 1..Len(f) :
                    SameGroup(f[j], f[i]) /\ f[j][col] = f[i][col]})] :
     i \in {i \in 1..Len(f) :
              f[i].Turma # TurmaNA(v) /\ f[i].MF # NaNStr
              /\ f[i][col] \in {"A", "B", "C", "D"}}}

(* groupby(['Turma','MF',col]).size()                                      *)
GroupContagem(f, col, v) ==
  {[Turma |-> f[i].Turma, MF |-> f[i].MF, Valor |-> f[i][col],
    Contagem |-> Cardinality({j \in 1..Len(f) :
                    SameGroup(f[j], f[i]) /\ f[j][col] = f[i][col]})] :
     i \in {i \in 1..Len(f) :
              f[i].Turma # TurmaNA(v) /\ f[i].MF # NaNStr /\ f[i][col] # NaNStr}}

(* pd.merge(contagem, df_total, on=['Turma','MF']) and the percentage.     *)
DistTable(f, col, v) ==
  {[Turma |-> AsTypeStr(v, c.Turma), MF |-> c.MF, Valor |-> c.Valor,
    Contagem |-> c.Contagem, Total |-> t.Total,
    Pct |-> Round1(c.Contagem, t.Total)] :
     <<c, t>> \in {ct \in GroupContagem(f, col, v) \X GroupTotal(f, v) :
                     SameGroup(ct[1], ct[2])}}

Desligados(f) == LET Off(r) == r.Status = "Desligado" IN SelectSeq(f, Off)

(* df_desligados: groupby(['Turma','MF']).size() of the terminated rows.   *)
GroupDesligados(f, v) ==
  {[Turma |-> g.Turma, MF |-> g.MF, Desligados |-> g.Total] :
     g \in GroupTotal(Desligados(f), v)}

(* The merge with pandas' default how='inner'.                             *)
MergeInner(total, deslig) ==
  {[Turma |-> t.Turma, MF |-> t.MF, Total |-> t.Total, Desligados |-> d.Desligados] :
     <<t, d>> \in {td \in total \X deslig : SameGroup(td[1], td[2])}}

(* pd.merge(df_total, df_desligados, how='left'), fillna(0), the rate.     *)
MergeLeft(total, deslig) ==
  {[Turma |-> t.Turma, MF |-> t.MF, Total |-> t.Total,
    Desligados |-> IF \E d \in deslig : SameGroup(d, t)
                   THEN (CHOOSE d \in deslig : SameGroup(d, t)).Desligados
                   ELSE 0] : t \in total}

ChurnTable(f, v) ==
  {[Turma |-> AsTypeStr(v, m.Turma), MF |-> m.MF, Total |-> m.Total,
    Desligados |-> m.Desligados, Taxa |-> Round1(m.Desligados, m.Total)] :
     m \in MergeLeft(GroupTotal(f, v), GroupDesligados(f, v))}

Analises(f, v) ==
  /\ df_auc_pct' = DistTable(f, "CurvaAuCMaxima", v)
  /\ df_receita_pct' = DistTable(f, "CurvaReceitaMaxima", v)
  /\ df_deslig_pct' = ChurnTable(f, v)
  /\ pc' = "done"

VisaoGeral ==
  /\ pc = "sidebar"
  /\ visao' = Geral
  /\ df_filtered' = AllGeral(df)
  /\ ordem_x' = <<"Geral">>
  /\ Analises(AllGeral(df), Geral)
  /\ UNCHANGED <<uploaded_file, df, selecao_raw, message>>

Selecoes(disp) == {s \in SUBSET Opcoes(disp) : Cardinality(s) <= MaxSel}

SemSelecao ==
  /\ pc = "sidebar"
  /\ visao' = PorSafra
  /\ selecao_raw' = {}
  /\ message' = [level |-> "warning", detail |-> "selecione ao menos uma Turma"]
  /\ pc' = "returned"
  /\ UNCHANGED <<uploaded_file, df, df_filtered, ordem_x,
                 df_auc_pct, df_receita_pct, df_deslig_pct>>

VisaoPorSafra ==
  /\ pc = "sidebar"
  /\ \E sel \in Selecoes(turmas_disponiveis(df)) \ {{}} :
       LET ts == turmas_selecionadas(sel, turmas_disponiveis(df))
           f == Isin(df, ts)
           asc == Ascending(ts)
       IN /\ selecao_raw' = sel
          /\ df_filtered' = f
          /\ ordem_x' = [i \in 1..Len(asc) |-> ToString(asc[i])]
          /\ Analises(f, PorSafra)
  /\ visao' = PorSafra
  /\ UNCHANGED <<uploaded_file, df, message>>

Next == AwaitUpload \/ LoadFails \/ LoadOk \/ VisaoGeral \/ SemSelecao \/ VisaoPorSafra

(* One row per consultant, varying in the columns D..S.                    *)
PorConsultor(n, D, T, M, A, R, S) ==
  {s \in [1..n -> Recs(1..n, D, T, M, A, R, S)] : \A i \in 1..n : s[i].email = i}

FilesChurn ==
  {Csv(s) : s \in UNION {PorConsultor(n, {1}, Turmas \cup {NaN}, {"Sim", "Nao"}, {"A"},
                                      {"B"}, {"Ativo", "Desligado"}) :
                           n \in 1..MaxConsultores}}

InitChurn ==
  /\ uploaded_file \in {NoFile} \cup BadFiles \cup FilesChurn
  /\ InitRest

SpecChurn == InitChurn /\ [][Next]_vars

(* One row per consultant, varying in cohort, AuC letter (with a letter    *)
(* outside A..D) and status (with a status outside Ativo/Desligado).       *)
FilesDist ==
  {Csv(s) : s \in UNION {PorConsultor(n, {1}, Turmas, {"Nao"}, {"A", "E", NaNStr},
                                      {"B"}, {"Desligado", "Afastado"}) :
                           n \in 0..MaxConsultores}}

InitDist ==
  /\ uploaded_file \in {NoFile} \cup BadFiles \cup FilesDist
  /\ InitRest

SpecDist == InitDist /\ [][Next]_vars

(* Files whose rows vary in consultant, date (with malformed dates) and    *)
(* cohort.                                                                 *)
FilesMain ==
  {Csv(s) : s \in SeqsUpTo(Recs(Emails, Dates \cup {Malformed}, Turmas, {"Sim"},
                                {"A"}, {"B"}, {"Ativo"}), MaxRecs)}

Init ==
  /\ uploaded_file \in {NoFile} \cup BadFiles \cup FilesMain
  /\ InitRest

Spec == Init /\ [][Next]_vars

-----------------------------------------------------------------------------
(* Properties of load_and_prepare_data.                                    *)

Loaded == pc = "sidebar"

RowsOf(e) == {k \in 1..Len(rows) : rows[k].email = e}

(* Row i is earlier than row j: by parsed date, undated rows last, ties in *)
(* file order.                                                             *)
Earlier(i, j) ==
  LET di == ToDatetime(rows[i].Data)
      dj == ToDatetime(rows[j].Data)
  IN \/ di # NaT /\ (dj = NaT \/ di < dj)
     \/ di = dj /\ i < j

FirstRow(K) == CHOOSE i \in K : \A j \in K \ {i} : Earlier(i, j)

(* C1: the load returns exactly one profile per distinct consultant_id of  *)
(* the input rows: no two profiles share an E-mail, every E-mail of a row  *)
(* has a profile, every profile's E-mail is one of a row, and the number   *)
(* of profiles is the number of distinct E-mail values.  (An empty E-mail  *)
(* cell is no value: groupby drops such rows.)                             *)
OneProfilePerConsultant ==
  Loaded =>
    LET ids == {rows[k].email : k \in 1..Len(rows)} \ {NaN}
    IN /\ \A i, j \in 1..Len(df) : df[i].email = df[j].email => i = j
       /\ {df[i].email : i \in 1..Len(df)} = ids
       /\ Len(df) = Cardinality(ids)

OneProfileWitness ==
  /\ Loaded
  /\ Len(rows) = 3
  /\ Cardinality({rows[k].email : k \in 1..Len(rows)}) = 2
  /\ \E i, j \in 1..Len(rows) : i # j /\ rows[i].email = rows[j].email /\ rows[i].email # NaN
  /\ Len(df) = 2

(* C4 as stated: the profile's Turma is the Turma cell of the consultant's *)
(* first row in (E-mail, Data) order, also when that cell is missing.      *)
CohortOfFirstRecord ==
  Loaded =>
    \A n \in 1..Len(df) :
      df[n].Turma = rows[FirstRow(RowsOf(df[n].email))].Turma

(* C4 amended: the profile's Turma is the first non-missing Turma cell of  *)
(* the consultant's rows in (E-mail, Data) order (undated rows last, ties  *)
(* in file order), and missing only when every Turma cell of the           *)
(* consultant is missing; this holds when the rows disagree on Turma.      *)
CohortOfFirstKnown ==
  Loaded =>
    \A n \in 1..Len(df) :
      LET K == {k \in RowsOf(df[n].email) : rows[k].Turma # NaN}
      IN IF K = {} THEN df[n].Turma = NaN
         ELSE df[n].Turma = rows[FirstRow(K)].Turma

CohortWitness ==
  /\ Loaded
  /\ \E n \in 1..Len(df) :
       LET K == RowsOf(df[n].email)
       IN /\ rows[FirstRow(K)].Turma = NaN
          /\ FirstRow(K) # CHOOSE i \in K : \A j \in K : i <= j
          /\ \E i, j \in K : rows[i].Turma = 23 /\ rows[j].Turma = 24
          /\ df[n].Turma # NaN

(* C2: a profile's Status is "Desligado" exactly when some row of the      *)
(* consultant has Status "Desligado", and "Ativo" otherwise, whatever the  *)
(* order of the rows; appending a row to the file never turns a            *)
(* "Desligado" profile back to "Ativo".                                    *)
StickyTermination ==
  Loaded =>
    /\ \A n \in 1..Len(df) :
         df[n].Status =
           IF \E k \in RowsOf(df[n].email) : rows[k].Status = "Desligado"
           THEN "Desligado" ELSE "Ativo"
    /\ Len(rows) < MaxRecs =>
         \A r \in RecsStatus :
           LET more == load_and_prepare_data(Append(rows, r))
           IN \A n \in 1..Len(df) :
                df[n].Status = "Desligado" =>
                  \E m \in 1..Len(more) :
                    more[m].email = df[n].email /\ more[m].Status = "Desligado"

StickyWitness ==
  /\ Loaded
  /\ Len(rows) = 3
  /\ \A k \in 1..3 : rows[k].email = 1
  /\ rows[1].Status = "Ativo" /\ rows[2].Status = "Desligado" /\ rows[3].Status = "Ativo"
  /\ df[1].Status = "Desligado"

(* C3: on each track (AuC, Receita) a profile's attainment is the          *)
(* alphabetically smallest letter on any row of the consultant, whatever   *)
(* the order of the rows, and is missing exactly when the track is missing *)
(* on all rows of the consultant.                                          *)
BestOf(e, col) == {rows[k][col] : k \in RowsOf(e)} \ {NaNStr}

IsBest(v, S) ==
  IF S = {} THEN v = NaNStr
  ELSE v \in S /\ \A d \in S : Rank(v) <= Rank(d)

BestAttainment ==
  Loaded =>
    \A n \in 1..Len(df) :
      /\ IsBest(df[n].CurvaAuCMaxima, BestOf(df[n].email, "CurvaAuC"))
      /\ IsBest(df[n].CurvaReceitaMaxima, BestOf(df[n].email, "CurvaReceita"))

BestWitness ==
  /\ Loaded
  /\ Len(rows) = 3
  /\ \A k \in 1..3 : rows[k].email = 2
  /\ rows[1].CurvaAuC = "C" /\ rows[2].CurvaAuC = "A" /\ rows[3].CurvaAuC = "B"
  /\ \A k \in 1..3 : rows[k].CurvaReceita = NaNStr
  /\ df[1].CurvaAuCMaxima = "A"
  /\ df[1].CurvaReceitaMaxima = NaNStr

-----------------------------------------------------------------------------
(* Properties of main.                                                     *)

Done == pc = "done"

Label(t) == AsTypeStr(visao, t)

(* The rows of a table for the group of filtered profile i.                *)
RowsFor(T, i) ==
  {r \in T : r.Turma = Label(df_filtered[i].Turma) /\ r.MF = df_filtered[i].MF}

Members(i) ==
  {j \in 1..Len(df_filtered) : SameGroup(df_filtered[j], df_filtered[i])}

RECURSIVE SumPct(_)
SumPct(R) ==
  IF R = {} THEN 0
  ELSE LET r == CHOOSE x \in R : TRUE IN r.Pct + SumPct(R \ {r})

Abs(x) == IF x < 0 THEN -x ELSE x

Complete(T) ==
  \A i \in 1..Len(df_filtered) :
    2 * Abs(SumPct(RowsFor(T, i)) - 1000) <= Cardinality(RowsFor(T, i))

(* C5: in both distribution tables, for every (Turma, MF) group with a     *)
(* profile in the filtered set, the percentages of the group's rows sum to *)
(* 100 within 0.05 per row (in tenths: twice the deviation from 1000 is at *)
(* most the number of rows), also when a profile's letter is missing.      *)
DistributionComplete ==
  Done => Complete(df_auc_pct) /\ Complete(df_receita_pct)

(* C6: the churn table has exactly one row for every (Turma, MF) group     *)
(* with a profile in the filtered set and no row for any other pair; a     *)
(* row's rate is between 0 and 100, and is 0 exactly when no profile of    *)
(* the group is "Desligado".                                               *)
ChurnNonSparse ==
  Done =>
    /\ \A i \in 1..Len(df_filtered) : Cardinality(RowsFor(df_deslig_pct, i)) = 1
    /\ \A r \in df_deslig_pct :
         \E i \in 1..Len(df_filtered) :
           /\ r \in RowsFor(df_deslig_pct, i)
           /\ r.Total = Cardinality(Members(i))
           /\ r.Total > 0
           /\ r.Taxa \in 0..1000
           /\ r.Taxa = 0 <=> \A j \in Members(i) : df_filtered[j].Status # "Desligado"

ChurnWitness ==
  /\ Done
  /\ visao = PorSafra
  /\ \E r, q \in df_deslig_pct :
       /\ r.Turma = "23" /\ r.Total = 2 /\ r.Taxa = 500
       /\ q.Turma = "24" /\ q.Total = 1 /\ q.Taxa = 0

(* Cohort t is selected by the multiselect's value.                        *)
Chosen(t) ==
  \E item \in selecao_raw :
    \/ item.macro = "Selecionar todas"
    \/ item.macro = "Dados - FCE (Finclass)" /\ t >= 24
    \/ item.macro = "Dados - Sem FCE (Finclass)" /\ t < 24
    \/ item.macro = "" /\ item.turma = t

NothingMatches ==
  \A n \in 1..Len(df) : df[n].Turma = NaN \/ ~Chosen(df[n].Turma)

(* C7: when the resolved cohort selection matches no profile, the analyses *)
(* finish without an error and the two distribution tables and the churn   *)
(* table have no rows.                                                     *)
EmptySelectionEmptyTables ==
  (Done /\ visao = PorSafra /\ NothingMatches) =>
    /\ df_filtered = <<>>
    /\ df_auc_pct = {} /\ df_receita_pct = {} /\ df_deslig_pct = {}
    /\ message.level # "error"

EmptySelectionWitness ==
  /\ Done
  /\ visao = PorSafra
  /\ NothingMatches
  /\ Len(df) = 3
  /\ selecao_raw = {Especial("Dados - FCE (Finclass)"), Especial("Dados - Sem FCE (Finclass)")}
  /\ df_deslig_pct = {}

(* C9: in the per-cohort view, a selection that matches no profile (an     *)
(* empty selection, or macro groups that expand to no available cohort)    *)
(* makes main warn and return; the analyses never run on it.               *)
WarnedOnEmptySelection ==
  (visao = PorSafra /\ NothingMatches) =>
    pc = "returned" /\ message.level = "warning"

Unknown(v) == v \notin {"A", "B", "C", "D", NaNStr}

(* Every value on the rows of consultant e in column col is v.             *)
OnlyValue(e, col, v) ==
  RowsOf(e) # {} /\ \A k \in RowsOf(e) : rows[k][col] = v

(* The AuC table counts each letter of a group in a row of its own.        *)
CountedApart ==
  \A i \in 1..Len(df_filtered) :
    LET v == df_filtered[i].CurvaAuCMaxima
        R == {r \in RowsFor(df_auc_pct, i) : r.Valor = v}
    IN Unknown(v) =>
         /\ Cardinality(R) = 1
         /\ \A r \in R :
              r.Contagem = Cardinality({j \in Members(i) :
                                          df_filtered[j].CurvaAuCMaxima = v})
         /\ \A r \in RowsFor(df_auc_pct, i) :
              r.Contagem = Cardinality({j \in Members(i) :
                                          df_filtered[j].CurvaAuCMaxima = r.Valor})

(* C8 as stated: a letter outside A..D and a status outside                *)
(* Ativo/Desligado are kept as values of their own through consolidation   *)
(* and counting.                                                           *)
UnknownValuesKept ==
  /\ pc \in {"sidebar", "done"} =>
       \A n \in 1..Len(df) :
         /\ \A v \in {"E"} :
              OnlyValue(df[n].email, "CurvaAuC", v) => df[n].CurvaAuCMaxima = v
         /\ \A v \in {"Afastado"} :
              OnlyValue(df[n].email, "Status", v) => df[n].Status = v
  /\ Done => CountedApart

(* C8 amended: a letter outside A..D is kept as a value of its own through *)
(* consolidation and is counted in a distribution row of its own, never    *)
(* in the row of another letter; a status outside Ativo/Desligado is not   *)
(* kept: the profile of a consultant with no "Desligado" row is "Ativo".   *)
UnknownLetterKeptStatusFolded ==
  /\ pc \in {"sidebar", "done"} =>
       \A n \in 1..Len(df) :
         /\ \A v \in {"E"} :
              OnlyValue(df[n].email, "CurvaAuC", v) => df[n].CurvaAuCMaxima = v
         /\ \A v \in {"Afastado"} :
              OnlyValue(df[n].email, "Status", v) => df[n].Status = "Ativo"
         /\ df[n].Status \in {"Ativo", "Desligado"}
  /\ Done => CountedApart

UnknownWitness ==
  /\ Done
  /\ \E i \in 1..Len(df_filtered) :
       /\ df_filtered[i].CurvaAuCMaxima = "E"
       /\ rows[df_filtered[i].email].Status = "Afastado"
       /\ df_filtered[i].Status = "Ativo"
       /\ \E r, q \in RowsFor(df_auc_pct, i) :
            r.Valor = "E" /\ r.Pct = 667 /\ q.Valor = "A" /\ q.Pct = 333

Tables == <<df_auc_pct, df_receita_pct, df_deslig_pct>>

(* C10: when the load fails, main reports the error with its detail and    *)
(* returns: no table is ever computed; a malformed date never makes the    *)
(* load fail, and the consultant of a row with a malformed date has a      *)
(* profile.                                                                *)
LoadErrorsHalt ==
  /\ (uploaded_file.kind = "bad" /\ pc # "start") =>
       /\ pc = "returned"
       /\ message = [level |-> "error", detail |-> uploaded_file.detail]
       /\ df = <<>>
       /\ Tables = <<{}, {}, {}>>
  /\ (uploaded_file.kind = "csv" /\ pc # "start") =>
       /\ message.level # "error"
       /\ \A k \in 1..Len(rows) :
            rows[k].Data = Malformed =>
              \E n \in 1..Len(df) : df[n].email = rows[k].email

LoadErrorWitness ==
  /\ uploaded_file.kind = "bad"
  /\ pc = "returned"
  /\ message.level = "error"
  /\ message.detail = "KeyError: 'Data'"

====
